---- MODULE Spec2Model ----
(***************************************************************************)
(* Model of the chart-testing backend: the MetricsLogger store with its    *)
(* timing constructs (services/metrics_logger.py), the semiconductor data  *)
(* generator (services/data_generator.py) and the chart endpoints that     *)
(* drive them (routers/charts.py, main.py).                                *)
(*                                                                         *)
(* Python objects are references: a dict or a list is a cell of the heap   *)
(* (`dicts`, `lists`), and `metrics_store[lg]` is the reference held by    *)
(* the attribute self.metrics_store of logger lg.                          *)
(***************************************************************************)
EXTENDS Integers, Sequences, FiniteSets, TLC

VARIABLES
    metrics_store,  \* logger name -> reference (index into dicts) of self.metrics_store
    dicts,          \* heap of dict objects: each a function key -> list reference
    lists,          \* heap of list objects: each a sequence of metrics samples
    calls,          \* history: logger -> operation -> samples handed to log_timing since the last clear
    last,           \* the last call made on the program and how it ended
    ret,            \* the object get_metrics handed to its caller, or NoRet
    pc,             \* thread -> position inside log_timing
    local,          \* thread -> the locals of its log_timing call
    generator,      \* the SemiconductorDataGenerator under use (its parameters)
    output          \* what the last generator / endpoint call handed back

vars == <<metrics_store, dicts, lists, calls, last, ret, pc, local, generator, output>>

----------------------------------------------------------------------------
(* Bounds of the model *)

\* how many samples one logger's store may hold before the model stops appending
MaxSamples == 3
\* how many times clear_metrics may run
MaxClears == 1
\* the largest data set a generator is run on: weeks * lots * wafers
MaxPoints == 4
\* the largest data set requested through an endpoint
MaxApiPoints == 2
\* how many requests the transport serves
MaxRequests == 2
\* how many of them may be data requests (/boxplot, /csv)
MaxDataRequests == 1

----------------------------------------------------------------------------
(* Values *)

\* the three module-level MetricsLogger instances
Loggers == {"data_generator", "charts_router", "main"}

None == "<None>"
NoRef == 0

\* errors a wrapped body may raise
Errors == {"ValueError", "KeyError"}

\* elapsed wall time of a wrapped body, in thousandths of a millisecond
Elapsed == {1004, 2015}

\* round(x, 2) on a value in thousandths: the result in hundredths, half to even
Round2(x) ==
    LET q == x \div 10
        r == x % 10
    IN  IF r > 5 \/ (r = 5 /\ q % 2 = 1) THEN q + 1 ELSE q

EmptyDict == <<>>

Heap == [store |-> metrics_store, dicts |-> dicts, lists |-> lists]

----------------------------------------------------------------------------
(* MetricsLogger *)

\* `operation in self.metrics_store`
store_contains(h, lg, operation) ==
    operation \in DOMAIN h.dicts[h.store[lg]]

\* `self.metrics_store[operation] = []`: a fresh list bound to the key
store_setitem_new(h, lg, operation) ==
    LET d == h.store[lg]
        l == Len(h.lists) + 1
    IN  [h EXCEPT !.lists = Append(@, <<>>),
                  !.dicts[d] = [k \in DOMAIN @ \cup {operation} |->
                                    IF k = operation THEN l ELSE @[k]]]

\* `self.metrics_store[operation]`: the list reference (the caller checks the key)
store_getitem(h, lg, operation) ==
    h.dicts[h.store[lg]][operation]

\* `<list>.append(metrics)`
list_append(h, l, metrics) ==
    [h EXCEPT !.lists[l] = Append(@, metrics)]

\* A seeded fault: the sample is put in front of the history.
log_timing_front(h, lg, operation, metrics) ==
    LET h1 == IF store_contains(h, lg, operation) THEN h
              ELSE store_setitem_new(h, lg, operation)
        l  == store_getitem(h1, lg, operation)
    IN  [h1 EXCEPT !.lists[l] = <<metrics>> \o @]

\* MetricsLogger.log_timing, run without interruption
log_timing(h, lg, operation, metrics) ==
    LET h1 == IF store_contains(h, lg, operation) THEN h
              ELSE store_setitem_new(h, lg, operation)
    IN  list_append(h1, store_getitem(h1, lg, operation), metrics)

\* MetricsLogger.clear_metrics: self.metrics_store = {} (a new dict object)
clear_metrics(h, lg) ==
    [h EXCEPT !.dicts = Append(@, EmptyDict),
              !.store[lg] = Len(h.dicts) + 1]

\* MetricsLogger.get_metrics: the object handed back, with what it shares.
\*   operation given:  {operation: self.metrics_store.get(operation, [])}, a new
\*                     dict whose value is the stored list itself (ref), or a
\*                     new list of the caller's own (ref = NoRef, contents in own);
\*   none (or falsy):  self.metrics_store itself (ref is the dict).
get_metrics(h, lg, operation) ==
    IF operation \notin {None, ""}
    THEN [kind |-> "single", key |-> operation,
          ref  |-> IF store_contains(h, lg, operation)
                   THEN store_getitem(h, lg, operation) ELSE NoRef,
          own  |-> <<>>]
    ELSE [kind |-> "store", key |-> None, ref |-> h.store[lg], own |-> <<>>]

\* nothing returned yet
NoRet == [kind |-> "none", key |-> None, ref |-> NoRef, own |-> <<>>]

\* What a reference to a dict denotes: key -> sequence of samples
Deref(h, ref) == [k \in DOMAIN h.dicts[ref] |-> h.lists[h.dicts[ref][k]]]

\* What a returned object denotes: key -> sequence of samples
RetValue(h, r) ==
    IF r.kind = "store" THEN Deref(h, r.ref)
    ELSE IF r.kind = "single"
         THEN [k \in {r.key} |-> IF r.ref # NoRef THEN h.lists[r.ref] ELSE r.own]
         ELSE <<>>

\* The history stored under one operation name (empty when the name is absent)
History(h, lg, operation) ==
    IF store_contains(h, lg, operation)
    THEN h.lists[store_getitem(h, lg, operation)]
    ELSE <<>>

----------------------------------------------------------------------------
(* Timing constructs *)

\* A seeded fault: __exit__ returns True, which swallows the body's error.
TimingContext_exit_swallow(h, lg, operation_name, elapsed) ==
    [heap     |-> log_timing(h, lg, operation_name, [duration_ms |-> Round2(elapsed)]),
     suppress |-> TRUE]

\* TimingContext.__exit__: logs the sample, returns False (do not suppress)
TimingContext_exit(h, lg, operation_name, elapsed) ==
    [heap     |-> log_timing(h, lg, operation_name, [duration_ms |-> Round2(elapsed)]),
     suppress |-> FALSE]

\* `with TimingContext(logger, name): body` -- the with statement runs __exit__
\* on every exit of the body and re-raises the body's error unless __exit__
\* returned a true value.  body is "ok" or the error raised.
with_TimingContext(h, lg, operation_name, body, elapsed) ==
    LET x == TimingContext_exit(h, lg, operation_name, elapsed)
    IN  [heap   |-> x.heap,
         result |-> IF body # "ok" /\ ~x.suppress THEN body ELSE "ok"]

\* timed(...).sync_wrapper / async_wrapper: `result = func(...)` comes first, so
\* an error of func leaves the wrapper before log_timing is reached.
timed_wrapper(h, lg, operation_name, func, body, elapsed) ==
    IF body # "ok"
    THEN [heap |-> h, result |-> body]
    ELSE [heap   |-> log_timing(h, lg, operation_name,
                        [function |-> func, duration_ms |-> Round2(elapsed)]),
          result |-> "ok"]

----------------------------------------------------------------------------
(* SemiconductorDataGenerator *)

\* np.random.normal draws, in thousandths of a percent: below, inside and above the clip range
RawYields == {65432, 92134, 101200}

\* self.yield_min / self.yield_max, in thousandths of a percent
yield_min == 70000
yield_max == 99500

\* SemiconductorDataGenerator.__init__ (no parameter is checked)
SemiconductorDataGenerator(year, weeks_per_year, lots_per_week, wafers_per_lot) ==
    [year |-> year, weeks_per_year |-> weeks_per_year,
     lots_per_week |-> lots_per_week, wafers_per_lot |-> wafers_per_lot]

\* create_generator: passes its arguments through
create_generator(year, weeks, lots_per_week, wafers_per_lot) ==
    SemiconductorDataGenerator(year, weeks, lots_per_week, wafers_per_lot)

DecimalDigits == <<"0", "1", "2", "3", "4", "5", "6", "7", "8", "9">>

RECURSIVE Decimal(_)
Decimal(n) ==
    IF n < 10 THEN DecimalDigits[n + 1]
    ELSE Decimal(n \div 10) \o DecimalDigits[(n % 10) + 1]

RECURSIVE ZeroPad(_, _)
ZeroPad(s, width) == IF Len(s) >= width THEN s ELSE ZeroPad("0" \o s, width)

\* f"L{lot_counter:04d}"
FormatLotId(lot_counter) == "L" \o ZeroPad(Decimal(lot_counter), 4)

\* f"W{wafer:02d}"
FormatWaferId(wafer) == "W" \o ZeroPad(Decimal(wafer), 2)

\* A seeded fault: the wafer loop stops one short (range(1, wafers_per_lot)).
WaferRows_short(g, week, lot_id) ==
    [wafer \in 1..(IF g.wafers_per_lot > 0 THEN g.wafers_per_lot - 1 ELSE 0) |->
        [Lot_id |-> lot_id, Wafer_id |-> FormatWaferId(wafer),
         Year |-> g.year, Week_no |-> week]]

\* the innermost loop: one row per wafer of the lot
WaferRows(g, week, lot_id) ==
    [wafer \in 1..g.wafers_per_lot |->
        [Lot_id |-> lot_id, Wafer_id |-> FormatWaferId(wafer),
         Year |-> g.year, Week_no |-> week]]

\* `for _ in range(self.lots_per_week)`: k lots still to emit in this week
RECURSIVE LotLoop(_, _, _, _)
LotLoop(g, week, k, acc) ==
    IF k <= 0 THEN acc
    ELSE LotLoop(g, week, k - 1,
            [rows |-> acc.rows \o WaferRows(g, week, FormatLotId(acc.lot_counter)),
             lot_counter |-> acc.lot_counter + 1])

\* `for week in range(1, self.weeks_per_year + 1)`
RECURSIVE WeekLoop(_, _, _)
WeekLoop(g, week, acc) ==
    IF week > g.weeks_per_year THEN acc
    ELSE WeekLoop(g, week + 1, LotLoop(g, week, g.lots_per_week, acc))

\* the four parallel id arrays, as one sequence of rows (lot_counter starts at 1)
GenerateArrays(g) == WeekLoop(g, 1, [rows |-> <<>>, lot_counter |-> 1]).rows

\* np.clip(y, yield_min, yield_max)
Clip(y) == IF y < yield_min THEN yield_min ELSE IF y > yield_max THEN yield_max ELSE y

\* np.round(np.clip(draws), 2): yields in hundredths of a percent
GenerateYields(draws) == [i \in DOMAIN draws |-> Round2(Clip(draws[i]))]

\* total_points = weeks_per_year * lots_per_week * wafers_per_lot
TotalPoints(g) == (g.weeks_per_year * g.lots_per_week) * g.wafers_per_lot

\* pd.DataFrame({...}): the rows with their yields
DataFrame(rows, yields) ==
    [i \in DOMAIN rows |->
        [Lot_id |-> rows[i].Lot_id, Wafer_id |-> rows[i].Wafer_id,
         Year |-> rows[i].Year, Week_no |-> rows[i].Week_no, Yield |-> yields[i]]]

\* SemiconductorDataGenerator.generate_dataframe.  draws: the normal draws, one
\* per point; el: the elapsed time of each of the three timed blocks.
generate_dataframe(h, g, draws, el) ==
    LET rows == GenerateArrays(g)
        h1 == with_TimingContext(h, "data_generator", "array_generation", "ok", el[1]).heap
        h2 == with_TimingContext(h1, "data_generator", "yield_generation", "ok", el[2]).heap
        h3 == with_TimingContext(h2, "data_generator", "dataframe_creation", "ok", el[3]).heap
    IN  [heap |-> h3,
         df   |-> DataFrame(rows, GenerateYields(draws)),
         timing_metrics |->
            [array_generation_ms |-> el[1], yield_generation_ms |-> el[2],
             dataframe_creation_ms |-> el[3], total_data_points |-> TotalPoints(g)]]

\* A seeded fault: the lot ids of a week are taken without dropping repeats.
Unique_keep_repeats(s) == s

\* Series.unique(): the distinct values in order of first appearance
RECURSIVE Unique(_)
Unique(s) ==
    IF s = <<>> THEN <<>>
    ELSE LET init == Unique(SubSeq(s, 1, Len(s) - 1))
             x == s[Len(s)]
         IN  IF \E i \in DOMAIN init : init[i] = x THEN init ELSE Append(init, x)

\* ascending sort (np.percentile / np.median sort their input)
RECURSIVE Sorted(_)
Sorted(s) ==
    IF s = <<>> THEN <<>>
    ELSE LET init == Sorted(SubSeq(s, 1, Len(s) - 1))
             x == s[Len(s)]
             k == Cardinality({i \in DOMAIN init : init[i] <= x})
         IN  SubSeq(init, 1, k) \o <<x>> \o SubSeq(init, k + 1, Len(init))

RECURSIVE Sum(_)
Sum(s) == IF s = <<>> THEN 0 ELSE s[1] + Sum(Tail(s))

\* A seeded fault: the interpolation runs over the values as they came, unsorted.
Percentile_unsorted(values, p) ==
    LET pos == (Len(values) - 1) * p
        lo == (pos \div 100) + 1
        frac == pos % 100
        hi == IF frac = 0 THEN lo ELSE lo + 1
    IN  100 * values[lo] + frac * (values[hi] - values[lo])

\* np.percentile(values, p), method 'linear': position (n-1)*p/100 between the
\* two neighbouring order statistics.  The result is exact, in 1/100 of the
\* unit of the values.
Percentile(values, p) ==
    LET s == Sorted(values)
        pos == (Len(s) - 1) * p
        lo == (pos \div 100) + 1
        frac == pos % 100
        hi == IF frac = 0 THEN lo ELSE lo + 1
    IN  100 * s[lo] + frac * (s[hi] - s[lo])

\* np.median(values): the middle order statistic, or the mean of the two middle ones
Median(values) ==
    LET s == Sorted(values)
        n == Len(s)
    IN  IF n % 2 = 1 THEN 100 * s[(n + 1) \div 2]
        ELSE 50 * (s[n \div 2] + s[(n \div 2) + 1])

\* the "stats" dict of one lot; min..max in 1/100 of the yield unit, mean as sum/n
LotStats(yields) ==
    LET s == Sorted(yields)
    IN  [min    |-> 100 * s[1],
         q1     |-> Percentile(yields, 25),
         median |-> Median(yields),
         q3     |-> Percentile(yields, 75),
         max    |-> 100 * s[Len(s)],
         mean   |-> [sum |-> Sum(yields), n |-> Len(yields)],
         count  |-> Len(yields)]

\* one lot entry: lot_data = week_data[week_data["Lot_id"] == lot_id]
LotEntry(week_data, lot_id) ==
    LET IsLot(r) == r.Lot_id = lot_id
        lot_data == SelectSeq(week_data, IsLot)
        yields == [i \in DOMAIN lot_data |-> lot_data[i].Yield]
    IN  [lot_id |-> lot_id,
         wafers |-> [i \in DOMAIN lot_data |->
                        [Wafer_id |-> lot_data[i].Wafer_id, Yield |-> lot_data[i].Yield]],
         stats  |-> LotStats(yields)]

\* one week entry: week_data = df[df["Week_no"] == week], lots in first-seen order
WeekEntry(df, week) ==
    LET IsWeek(r) == r.Week_no = week
        week_data == SelectSeq(df, IsWeek)
        lot_ids == Unique([i \in DOMAIN week_data |-> week_data[i].Lot_id])
    IN  [week_no |-> week,
         lots    |-> [j \in DOMAIN lot_ids |-> LotEntry(week_data, lot_ids[j])]]

\* the box plot structure built inside the "boxplot_transformation" block
BoxplotData(g, df) ==
    [metadata  |-> [year |-> g.year, total_weeks |-> g.weeks_per_year,
                    total_lots |-> g.weeks_per_year * g.lots_per_week,
                    wafers_per_lot |-> g.wafers_per_lot,
                    total_points |-> Len(df)],
     hierarchy |-> [levels |-> <<"Year", "Week_no", "Lot_id">>, years |-> <<g.year>>],
     weeks     |-> [week \in 1..g.weeks_per_year |-> WeekEntry(df, week)]]

\* the part of generate_boxplot_data after `df, gen_metrics = self.generate_dataframe()`
boxplot_of_dataframe(g, gen, el) ==
    [heap |-> with_TimingContext(gen.heap, "data_generator", "boxplot_transformation",
                                 "ok", el[4]).heap,
     df   |-> gen.df,
     boxplot_data |-> BoxplotData(g, gen.df),
     timing_metrics |->
        [array_generation_ms |-> gen.timing_metrics.array_generation_ms,
         yield_generation_ms |-> gen.timing_metrics.yield_generation_ms,
         dataframe_creation_ms |-> gen.timing_metrics.dataframe_creation_ms,
         total_data_points |-> gen.timing_metrics.total_data_points,
         boxplot_transformation_ms |-> el[4]]]

\* SemiconductorDataGenerator.generate_boxplot_data; el has four elapsed times
generate_boxplot_data(h, g, draws, el) ==
    boxplot_of_dataframe(g, generate_dataframe(h, g, draws, el), el)

\* str of a float yield given in hundredths: 9213 -> "92.13", 7000 -> "70.0"
FormatYield(y) ==
    Decimal(y \div 100) \o "." \o
        (IF y % 10 = 0 THEN Decimal((y % 100) \div 10) ELSE ZeroPad(Decimal(y % 100), 2))

\* one line of DataFrame.to_csv(index=False): the fields with commas between
\* them, then the line end; the text is kept as its sequence of pieces.
\* No field holds a comma, a quote or a line break, so none is quoted.
CsvLine(f) == <<f[1], ",", f[2], ",", f[3], ",", f[4], ",", f[5], "\n">>

\* DataFrame.to_csv(index=False): the header line, then one line per row
to_csv(df) ==
    LET RECURSIVE Body(_)
        Body(i) ==
            IF i > Len(df) THEN <<>>
            ELSE CsvLine(<<df[i].Lot_id, df[i].Wafer_id, Decimal(df[i].Year),
                           Decimal(df[i].Week_no), FormatYield(df[i].Yield)>>)
                    \o Body(i + 1)
    IN  CsvLine(<<"Lot_id", "Wafer_id", "Year", "Week_no", "Yield">>) \o Body(1)

\* len(csv_string.encode('utf-8')): every character is ASCII
RECURSIVE ByteLength(_)
ByteLength(text) == IF text = <<>> THEN 0 ELSE Len(text[1]) + ByteLength(Tail(text))

\* the lines of a text: one per line end
LineCount(text) == Cardinality({i \in DOMAIN text : text[i] = "\n"})

\* the part of generate_csv after `df, timing_metrics = self.generate_dataframe()`
csv_of_dataframe(gen, csv_string, el) ==
    [heap |-> with_TimingContext(gen.heap, "data_generator", "csv_serialization",
                                 "ok", el[4]).heap,
     df   |-> gen.df,
     csv_string |-> csv_string,
     timing_metrics |->
        [array_generation_ms |-> gen.timing_metrics.array_generation_ms,
         yield_generation_ms |-> gen.timing_metrics.yield_generation_ms,
         dataframe_creation_ms |-> gen.timing_metrics.dataframe_creation_ms,
         total_data_points |-> gen.timing_metrics.total_data_points,
         csv_serialization_ms |-> el[4],
         csv_size_bytes |-> ByteLength(csv_string)]]

csv_of_generated(gen, el) == csv_of_dataframe(gen, to_csv(gen.df), el)

\* SemiconductorDataGenerator.generate_csv; el has four elapsed times
generate_csv(h, g, draws, el) ==
    csv_of_generated(generate_dataframe(h, g, draws, el), el)

----------------------------------------------------------------------------
(* State shared by every specification *)

\* operation names used when the logger is driven directly
UnitOps == {"data_processing", "data_generation"}

\* operation names of the pipeline stages (logger "data_generator")
PipelineOps == {"array_generation", "yield_generation", "dataframe_creation",
                "boxplot_transformation", "csv_serialization"}

\* operation names of the transport wrapper (loggers "charts_router" and "main")
TransportOps == {"boxplot_endpoint", "response_preparation", "csv_download",
                 "request_complete"}

AllOps == UnitOps \cup PipelineOps \cup TransportOps

\* the logger the sequential and threaded specifications drive
UnitLogger == "data_generator"

Threads == {"t1", "t2"}

NoLocal == [operation |-> None, metrics |-> [duration_ms |-> 0], list |-> NoRef]

NoLast == [call |-> "none", logger |-> None, operation |-> None,
           body |-> "ok", result |-> "ok"]

NoOutput == [kind |-> "none"]

\* The lists a returned object or a thread's locals still refer to
HeldLists(r, loc) ==
    ((IF r.kind = "single" THEN {r.ref} ELSE {})
        \cup {loc[t].list : t \in Threads}) \ {NoRef}

\* Reference counting: a dict no logger and no caller holds any more is freed
\* (left empty), and so is a list no live dict and no caller refers to; list
\* cells freed at the end of the heap are given back.
RECURSIVE TrimLists(_, _)
TrimLists(ls, live) ==
    IF ls # <<>> /\ Len(ls) \notin live
    THEN TrimLists(SubSeq(ls, 1, Len(ls) - 1), live)
    ELSE ls

Collect(h, r, loc) ==
    LET liveDicts == {h.store[lg] : lg \in Loggers}
                        \cup (IF r.kind = "store" THEN {r.ref} ELSE {})
        liveLists == UNION {{h.dicts[d][k] : k \in DOMAIN h.dicts[d]} : d \in liveDicts}
                        \cup HeldLists(r, loc)
    IN  [store |-> h.store,
         dicts |-> [d \in DOMAIN h.dicts |->
                        IF d \in liveDicts THEN h.dicts[d] ELSE EmptyDict],
         lists |-> TrimLists([l \in DOMAIN h.lists |->
                        IF l \in liveLists THEN h.lists[l] ELSE <<>>], liveLists)]

\* the heap, the returned object and the thread locals after a step
Commit(h, r, loc) ==
    LET c == Collect(h, r, loc)
    IN  /\ metrics_store' = c.store
        /\ dicts' = c.dicts
        /\ lists' = c.lists
        /\ ret' = r
        /\ local' = loc

\* the number of samples a logger's store holds
RECURSIVE SumLen(_, _)
SumLen(f, keys) ==
    IF keys = {} THEN 0
    ELSE LET k == CHOOSE x \in keys : TRUE
         IN  Len(f[k]) + SumLen(f, keys \ {k})

StoredSamples(h, lg) ==
    LET v == Deref(h, h.store[lg]) IN SumLen(v, DOMAIN v)

\* MetricsLogger.__init__ for the three module-level loggers: each its own {}
InitLoggers ==
    /\ dicts = [i \in 1..Cardinality(Loggers) |-> EmptyDict]
    /\ metrics_store = [lg \in Loggers |->
            CASE lg = "data_generator" -> 1
              [] lg = "charts_router"  -> 2
              [] OTHER                 -> 3]
    /\ lists = <<>>
    /\ calls = [lg \in Loggers |-> [op \in AllOps |-> <<>>]]
    /\ last = NoLast
    /\ ret = NoRet
    /\ pc = [t \in Threads |-> "idle"]
    /\ local = [t \in Threads |-> NoLocal]
    /\ output = NoOutput

\* how many times clear_metrics has run: each run makes one dict
ClearsDone == Len(dicts) - Cardinality(Loggers)

\* the samples a direct caller hands to log_timing
Metrics == {[duration_ms |-> Round2(e)] : e \in Elapsed}

----------------------------------------------------------------------------
(* Spec: one MetricsLogger driven by a single caller, call after call *)

\* logger.log_timing(operation, metrics)
LogTiming(lg, operation, metrics) ==
    /\ StoredSamples(Heap, lg) < MaxSamples
    /\ Commit(log_timing(Heap, lg, operation, metrics), ret, local)
    /\ calls' = [calls EXCEPT ![lg][operation] = Append(@, metrics)]
    /\ last' = [call |-> "log_timing", logger |-> lg, operation |-> operation,
                body |-> "ok", result |-> "ok"]
    /\ UNCHANGED <<pc, generator, output>>

\* with TimingContext(logger, operation): <body>; the body ends "ok" or raises
RunTimingContext(lg, operation, body, elapsed) ==
    /\ StoredSamples(Heap, lg) < MaxSamples
    /\ LET r == with_TimingContext(Heap, lg, operation, body, elapsed)
       IN  /\ Commit(r.heap, ret, local)
           /\ last' = [call |-> "TimingContext", logger |-> lg,
                       operation |-> operation, body |-> body, result |-> r.result]
    /\ calls' = [calls EXCEPT ![lg][operation] =
                    Append(@, [duration_ms |-> Round2(elapsed)])]
    /\ UNCHANGED <<pc, generator, output>>

\* a call of a function decorated with @timed(logger, operation); kind tells
\* whether asyncio.iscoroutinefunction(func) chose async_wrapper or sync_wrapper
RunTimed(lg, operation, kind, body, elapsed) ==
    /\ StoredSamples(Heap, lg) < MaxSamples
    /\ LET r == timed_wrapper(Heap, lg, operation, "generate_data", body, elapsed)
       IN  /\ Commit(r.heap, ret, local)
           /\ last' = [call |-> kind, logger |-> lg, operation |-> operation,
                       body |-> body, result |-> r.result]
           /\ calls' = IF r.heap = Heap THEN calls
                       ELSE [calls EXCEPT ![lg][operation] =
                                Append(@, [function |-> "generate_data",
                                           duration_ms |-> Round2(elapsed)])]
    /\ UNCHANGED <<pc, generator, output>>

\* logger.clear_metrics()
ClearMetrics(lg) ==
    /\ ClearsDone < MaxClears
    /\ Commit(clear_metrics(Heap, lg), ret, local)
    /\ calls' = [calls EXCEPT ![lg] = [op \in AllOps |-> <<>>]]
    /\ last' = [call |-> "clear_metrics", logger |-> lg, operation |-> None,
                body |-> "ok", result |-> "ok"]
    /\ UNCHANGED <<pc, generator, output>>

\* r = logger.get_metrics(operation)
GetMetrics(lg, operation) ==
    /\ Commit(Heap, get_metrics(Heap, lg, operation), local)
    /\ last' = [call |-> "get_metrics", logger |-> lg, operation |-> operation,
                body |-> "ok", result |-> "ok"]
    /\ UNCHANGED <<calls, pc, generator, output>>

\* the default generator of SemiconductorDataGenerator.__init__, never run here
DefaultGenerator == SemiconductorDataGenerator(2025, 52, 10, 25)

Init ==
    /\ InitLoggers
    /\ generator = DefaultGenerator

Next ==
    \/ \E op \in UnitOps, m \in Metrics : LogTiming(UnitLogger, op, m)
    \/ \E op \in UnitOps, body \in {"ok"} \cup Errors, e \in Elapsed :
            RunTimingContext(UnitLogger, op, body, e)
    \/ \E op \in UnitOps, kind \in {"timed_sync", "timed_async"},
          body \in {"ok"} \cup Errors, e \in Elapsed :
            RunTimed(UnitLogger, op, kind, body, e)
    \/ ClearMetrics(UnitLogger)

Spec == Init /\ [][Next]_vars

\* the calls that are timing constructs
TimingCalls == {"TimingContext", "timed_sync", "timed_async"}

\* C1: get_metrics(name) returns exactly the samples handed to log_timing under
\* name since the last clear_metrics, in call order (get_metrics() returns the
\* same histories, one key per name that has one), and right after
\* clear_metrics every name's history is empty.
C1_GetMetricsReturnsHistoryInCallOrder ==
    /\ \A op \in AllOps :
          RetValue(Heap, get_metrics(Heap, UnitLogger, op))[op] = calls[UnitLogger][op]
    /\ LET all == RetValue(Heap, get_metrics(Heap, UnitLogger, None))
       IN  /\ DOMAIN all = {op \in AllOps : calls[UnitLogger][op] # <<>>}
           /\ \A op \in DOMAIN all : all[op] = calls[UnitLogger][op]
    /\ last.call = "clear_metrics" =>
          /\ RetValue(Heap, get_metrics(Heap, UnitLogger, None)) = <<>>
          /\ \A op \in AllOps :
                RetValue(Heap, get_metrics(Heap, UnitLogger, op))[op] = <<>>

\* C1 witness: after a clear, two different samples stored under one name, in call order
C1_Witness ==
    /\ ClearsDone = 1
    /\ Len(calls[UnitLogger]["data_processing"]) = 2
    /\ calls[UnitLogger]["data_processing"][1] # calls[UnitLogger]["data_processing"][2]
    /\ History(Heap, UnitLogger, "data_processing") = calls[UnitLogger]["data_processing"]
    /\ calls[UnitLogger]["data_generation"] # <<>>

\* C2: every timing construct (TimingContext block, timed function, sync or
\* async) appends exactly one sample under its operation name, whether the
\* wrapped work returns or raises.
C2_EveryTimingConstructAppendsOneSample ==
    [][last'.call \in TimingCalls =>
          Len(History(Heap', last'.logger, last'.operation))
              = Len(History(Heap, last'.logger, last'.operation)) + 1]_vars

\* C7: an error raised by the body of a TimingContext block or of a timed
\* function reaches the caller unchanged (and normal completion stays normal);
\* for a TimingContext block the sample is on record by then.
C7_ErrorOfWrappedWorkPropagates ==
    last.call \in TimingCalls =>
        /\ last.result = last.body
        /\ last.call = "TimingContext" =>
              /\ History(Heap, last.logger, last.operation) # <<>>
              /\ History(Heap, last.logger, last.operation)
                    = calls[last.logger][last.operation]

\* C7 witness: a TimingContext block whose body raised KeyError, seen by the caller
C7_Witness ==
    /\ last.call = "TimingContext"
    /\ last.body = "KeyError"
    /\ last.result = "KeyError"
    /\ History(Heap, last.logger, last.operation) # <<>>

----------------------------------------------------------------------------
(* SpecAlias: a caller that keeps and uses what get_metrics handed back *)

\* the histories the logger's store holds
StoreView(lg) == Deref(Heap, metrics_store[lg])

\* what the caller puts into a list it was handed
CallerSample == [duration_ms |-> 0]

\* returned[key].append(metrics), done by the caller
CallerAppends(key, metrics) ==
    /\ ret.kind \in {"store", "single"}
    /\ key \in DOMAIN RetValue(Heap, ret)
    /\ SumLen(RetValue(Heap, ret), DOMAIN RetValue(Heap, ret)) < MaxSamples
    /\ IF ret.kind = "store"
       THEN Commit(list_append(Heap, dicts[ret.ref][key], metrics), ret, local)
       ELSE IF ret.ref # NoRef
            THEN Commit(list_append(Heap, ret.ref, metrics), ret, local)
            ELSE Commit(Heap, [ret EXCEPT !.own = Append(@, metrics)], local)
    /\ last' = [call |-> "caller_append", logger |-> None, operation |-> key,
                body |-> "ok", result |-> "ok"]
    /\ UNCHANGED <<calls, pc, generator, output>>

\* returned.clear(), done by the caller on the dict get_metrics() gave
CallerClears ==
    /\ ret.kind = "store"
    /\ dicts[ret.ref] # EmptyDict
    /\ Commit([Heap EXCEPT !.dicts[ret.ref] = EmptyDict], ret, local)
    /\ last' = [call |-> "caller_clear", logger |-> None, operation |-> None,
                body |-> "ok", result |-> "ok"]
    /\ UNCHANGED <<calls, pc, generator, output>>

NextAlias ==
    \/ \E op \in UnitOps, m \in Metrics :
            /\ SumLen(calls[UnitLogger], AllOps) < MaxSamples
            /\ LogTiming(UnitLogger, op, m)
    \/ ClearMetrics(UnitLogger)
    \/ \E op \in UnitOps \cup {None, "", "unknown_operation"} :
            GetMetrics(UnitLogger, op)
    \/ \E key \in UnitOps \cup {"unknown_operation"} :
            CallerAppends(key, CallerSample)
    \/ CallerClears

SpecAlias == Init /\ [][NextAlias]_vars

\* C6: get_metrics never changes the store (names and histories are the same
\* after the call as before), and nothing the caller does with the returned
\* value changes the stored history.
C6_GetMetricsAndItsResultLeaveStoreAlone ==
    [][last'.call \in {"get_metrics", "caller_append", "caller_clear"} =>
          StoreView(UnitLogger)' = StoreView(UnitLogger)]_vars

----------------------------------------------------------------------------
(* SpecThreads: two threads inside log_timing at once; the interpreter may
   switch threads between the statements of the method *)

\* thread t enters logger.log_timing(operation, metrics)
ThreadCall(t, operation, metrics) ==
    /\ pc[t] = "idle"
    /\ SumLen(calls[UnitLogger], AllOps) < MaxSamples
    /\ pc' = [pc EXCEPT ![t] = "test"]
    /\ local' = [local EXCEPT ![t] =
                    [operation |-> operation, metrics |-> metrics, list |-> NoRef]]
    /\ calls' = [calls EXCEPT ![UnitLogger][operation] = Append(@, metrics)]
    /\ UNCHANGED <<metrics_store, dicts, lists, last, ret, generator, output>>

\* `if operation not in self.metrics_store:`
ThreadTest(t) ==
    /\ pc[t] = "test"
    /\ pc' = [pc EXCEPT ![t] =
                IF store_contains(Heap, UnitLogger, local[t].operation)
                THEN "getitem" ELSE "setitem"]
    /\ UNCHANGED <<metrics_store, dicts, lists, calls, last, ret, local,
                   generator, output>>

\* `self.metrics_store[operation] = []`
ThreadSetitem(t) ==
    /\ pc[t] = "setitem"
    /\ Commit(store_setitem_new(Heap, UnitLogger, local[t].operation), ret, local)
    /\ pc' = [pc EXCEPT ![t] = "getitem"]
    /\ UNCHANGED <<calls, last, generator, output>>

\* `self.metrics_store[operation]` of the last line: the list, or KeyError
ThreadGetitem(t) ==
    /\ pc[t] = "getitem"
    /\ IF store_contains(Heap, UnitLogger, local[t].operation)
       THEN /\ Commit(Heap, ret, [local EXCEPT ![t].list =
                        store_getitem(Heap, UnitLogger, local[t].operation)])
            /\ pc' = [pc EXCEPT ![t] = "append"]
            /\ last' = last
       ELSE /\ Commit(Heap, ret, [local EXCEPT ![t] = NoLocal])
            /\ pc' = [pc EXCEPT ![t] = "idle"]
            /\ last' = [call |-> "log_timing", logger |-> UnitLogger,
                        operation |-> local[t].operation,
                        body |-> "ok", result |-> "KeyError"]
    /\ UNCHANGED <<calls, generator, output>>

\* `.append(metrics)` on the list just loaded; log_timing returns
ThreadAppend(t) ==
    /\ pc[t] = "append"
    /\ Commit(list_append(Heap, local[t].list, local[t].metrics), ret,
              [local EXCEPT ![t] = NoLocal])
    /\ pc' = [pc EXCEPT ![t] = "idle"]
    /\ last' = [call |-> "log_timing", logger |-> UnitLogger,
                operation |-> local[t].operation, body |-> "ok", result |-> "ok"]
    /\ UNCHANGED <<calls, generator, output>>

NextThreads ==
    \/ \E t \in Threads, op \in UnitOps, m \in Metrics : ThreadCall(t, op, m)
    \/ \E t \in Threads : ThreadTest(t)
    \/ \E t \in Threads : ThreadSetitem(t)
    \/ \E t \in Threads : ThreadGetitem(t)
    \/ \E t \in Threads : ThreadAppend(t)
    \/ ClearMetrics(UnitLogger)

SpecThreads == Init /\ [][NextThreads]_vars

\* how often x occurs in a sequence
Count(s, x) == Cardinality({i \in DOMAIN s : s[i] = x})

\* C4: with log_timing calls of concurrent requests interleaved, no sample is
\* lost or corrupted: once every call has finished, and no reset has run, the
\* history of each name holds every sample handed in exactly once.
C4_NoSampleLostUnderConcurrentAppends ==
    ((\A t \in Threads : pc[t] = "idle") /\ ClearsDone = 0) =>
        \A op \in UnitOps :
            /\ Len(History(Heap, UnitLogger, op)) = Len(calls[UnitLogger][op])
            /\ \A m \in Metrics :
                  Count(History(Heap, UnitLogger, op), m) = Count(calls[UnitLogger][op], m)

----------------------------------------------------------------------------
(* SpecGen: one generator, built with any small parameters (zero included,
   the constructor checks nothing), runs one of its three methods *)

GeneratorCalls == {"generate_dataframe", "generate_boxplot_data", "generate_csv"}

\* the years a generator is built for
Years == {2025}

\* the parameter triples whose data set has at most n points
SmallParameters(lowest, n) ==
    {p \in (lowest..n) \X (lowest..n) \X (lowest..n) : (p[1] * p[2]) * p[3] <= n}

\* the draws np.random.normal can give for this generator
Draws(g) == [1..TotalPoints(g) -> RawYields]

NonPositive(g) ==
    g.weeks_per_year <= 0 \/ g.lots_per_week <= 0 \/ g.wafers_per_lot <= 0

\* the samples the stages of one generator call hand to the "data_generator" logger
StageCalls(c, stages, el) ==
    [c EXCEPT !["data_generator"] =
        [op \in AllOps |->
            IF \E i \in DOMAIN stages : stages[i] = op
            THEN Append(@[op], [duration_ms |->
                    Round2(el[CHOOSE i \in DOMAIN stages : stages[i] = op])])
            ELSE @[op]]]

\* df, timing_metrics = generator.generate_dataframe()
GenerateDataframe(draws, el) ==
    /\ \E r \in {generate_dataframe(Heap, generator, draws, el)} :
           /\ Commit(r.heap, ret, local)
           /\ output' = [kind |-> "dataframe", result |-> "ok", df |-> r.df,
                         timing_metrics |-> r.timing_metrics]
    /\ calls' = StageCalls(calls,
                    <<"array_generation", "yield_generation", "dataframe_creation">>, el)
    /\ last' = [call |-> "generate_dataframe", logger |-> "data_generator",
                operation |-> None, body |-> "ok", result |-> "ok"]
    /\ UNCHANGED <<pc, generator>>

\* boxplot_data, timing_metrics = generator.generate_boxplot_data()
GenerateBoxplotData(draws, el) ==
    /\ \E r \in {generate_boxplot_data(Heap, generator, draws, el)} :
           /\ Commit(r.heap, ret, local)
           /\ output' = [kind |-> "boxplot", result |-> "ok", df |-> r.df,
                         boxplot_data |-> r.boxplot_data,
                         timing_metrics |-> r.timing_metrics]
    /\ calls' = StageCalls(calls,
                    <<"array_generation", "yield_generation", "dataframe_creation",
                      "boxplot_transformation">>, el)
    /\ last' = [call |-> "generate_boxplot_data", logger |-> "data_generator",
                operation |-> None, body |-> "ok", result |-> "ok"]
    /\ UNCHANGED <<pc, generator>>

\* csv_string, timing_metrics = generator.generate_csv()
GenerateCsv(draws, el) ==
    /\ \E r \in {generate_csv(Heap, generator, draws, el)} :
           /\ Commit(r.heap, ret, local)
           /\ output' = [kind |-> "csv", result |-> "ok", df |-> r.df,
                         csv_string |-> r.csv_string,
                         timing_metrics |-> r.timing_metrics]
    /\ calls' = StageCalls(calls,
                    <<"array_generation", "yield_generation", "dataframe_creation",
                      "csv_serialization">>, el)
    /\ last' = [call |-> "generate_csv", logger |-> "data_generator",
                operation |-> None, body |-> "ok", result |-> "ok"]
    /\ UNCHANGED <<pc, generator>>

InitGen ==
    /\ InitLoggers
    /\ \E y \in Years, p \in SmallParameters(0, MaxPoints) :
            generator = create_generator(y, p[1], p[2], p[3])

\* a generator object serves one call: the endpoints build one per request
Unused == output.kind = "none"

NextGen ==
    \/ /\ Unused
       /\ \E draws \in Draws(generator), el \in [1..3 -> Elapsed] :
                GenerateDataframe(draws, el)
    \/ /\ Unused
       /\ \E draws \in Draws(generator), el \in [1..4 -> Elapsed] :
                GenerateBoxplotData(draws, el)
    \/ /\ Unused
       /\ \E draws \in Draws(generator), el \in [1..4 -> Elapsed] :
                GenerateCsv(draws, el)

SpecGen == InitGen /\ [][NextGen]_vars

\* C3: with wafersPerLot = 0 or weeks = 0 (or any non-positive volume
\* parameter) the generator methods end in an InvalidParameter error, no
\* record is produced and the Metrics Store is left as it was.
C3_NonPositiveParametersRejected ==
    [][(last'.call \in GeneratorCalls /\ NonPositive(generator)) =>
          /\ output'.result = "InvalidParameter"
          /\ output'.df = <<>>
          /\ Heap' = Heap]_vars

\* the lot entries of a hierarchical result, week after week
RECURSIVE AllLots(_)
AllLots(weeks) ==
    IF weeks = <<>> THEN <<>> ELSE weeks[1].lots \o AllLots(Tail(weeks))

\* the hierarchical and the flat projection of the data set a call produced
HierarchicalOf(out) ==
    IF out.kind = "boxplot" THEN out.boxplot_data ELSE BoxplotData(generator, out.df)

FlatOf(out) ==
    IF out.kind = "csv" THEN out.csv_string ELSE to_csv(out.df)

\* C8: for valid parameters (all >= 1) the data set has exactly
\* weeksPerYear x lotsPerWeek x wafersPerLot records, and total_data_points and
\* the hierarchical metadata.total_points equal that record count.
C8_RecordCountIsProductOfParameters ==
    (output.kind # "none" /\ ~NonPositive(generator)) =>
        /\ Len(output.df)
              = generator.weeks_per_year * generator.lots_per_week * generator.wafers_per_lot
        /\ output.timing_metrics.total_data_points = Len(output.df)
        /\ output.kind = "boxplot" =>
              output.boxplot_data.metadata.total_points = Len(output.df)

\* C8 witness: a box plot call for 2 weeks x 2 lots x 1 wafer gave 4 records
C8_Witness ==
    /\ output.kind = "boxplot"
    /\ generator.weeks_per_year = 2 /\ generator.lots_per_week = 2
    /\ generator.wafers_per_lot = 1
    /\ Len(output.df) = 4
    /\ output.boxplot_data.metadata.total_points = 4

\* C9: for one record set, the data rows of the flat text (lines minus the
\* header) are as many as the sum of stats.count over all lots of all weeks of
\* the hierarchical result.
C9_FlatRowsEqualSumOfLotCounts ==
    output.kind # "none" =>
        LET lots == AllLots(HierarchicalOf(output).weeks)
        IN  LineCount(FlatOf(output)) - 1
                = Sum([i \in DOMAIN lots |-> lots[i].stats.count])

\* C9 witness: a csv call of three data rows (four lines), one week of three one-wafer lots
C9_Witness ==
    /\ output.kind = "csv"
    /\ LineCount(output.csv_string) = 4
    /\ generator.weeks_per_year = 1 /\ generator.lots_per_week = 3
    /\ Len(AllLots(HierarchicalOf(output).weeks)) = 3

\* C10: in every lot entry min <= q1 <= median <= q3 <= max, and stats.count
\* is the number of wafer records of that lot.
C10_LotStatisticsOrderedAndCounted ==
    output.kind = "boxplot" =>
        \A w \in DOMAIN output.boxplot_data.weeks :
            \A j \in DOMAIN output.boxplot_data.weeks[w].lots :
                LET lot == output.boxplot_data.weeks[w].lots[j]
                    st == lot.stats
                IN  /\ st.min <= st.q1 /\ st.q1 <= st.median
                    /\ st.median <= st.q3 /\ st.q3 <= st.max
                    /\ st.count = Cardinality({i \in DOMAIN output.df :
                                        output.df[i].Lot_id = lot.lot_id})
                    /\ st.count = Len(lot.wafers)

\* C10 witness: a lot of four wafers whose five statistics are all different
C10_Witness ==
    /\ output.kind = "boxplot"
    /\ \E w \in DOMAIN output.boxplot_data.weeks :
          \E j \in DOMAIN output.boxplot_data.weeks[w].lots :
              LET st == output.boxplot_data.weeks[w].lots[j].stats
              IN  /\ st.count = 4
                  /\ st.min < st.q1 /\ st.q1 < st.median
                  /\ st.median < st.q3 /\ st.q3 < st.max

\* C11: lot ids come from one counter that starts at 1 and is never reset, so
\* a lot id belongs to one week and is unique in the data set; the hierarchical
\* result lists the weeks 1..weeksPerYear in ascending order, each with exactly
\* lotsPerWeek lot entries in generation order (the j-th lot of week w carries
\* the id of counter value (w-1)*lotsPerWeek + j), each lot holding the wafer
\* ids 1..wafersPerLot in generation order.
C11_LotIdsSequentialAndGroupedByWeek ==
    output.kind = "boxplot" =>
        LET weeks == output.boxplot_data.weeks
            lots == AllLots(weeks)
        IN  /\ \A i, j \in DOMAIN output.df :
                  output.df[i].Lot_id = output.df[j].Lot_id
                      => output.df[i].Week_no = output.df[j].Week_no
            /\ \A i, j \in DOMAIN lots : lots[i].lot_id = lots[j].lot_id => i = j
            /\ Len(weeks) = generator.weeks_per_year
            /\ \A w \in DOMAIN weeks :
                  /\ weeks[w].week_no = w
                  /\ Len(weeks[w].lots) = generator.lots_per_week
                  /\ \A j \in DOMAIN weeks[w].lots :
                        LET lot == weeks[w].lots[j]
                        IN  /\ lot.lot_id
                                  = FormatLotId((w - 1) * generator.lots_per_week + j)
                            /\ Len(lot.wafers) = generator.wafers_per_lot
                            /\ \A i \in DOMAIN lot.wafers :
                                  lot.wafers[i].Wafer_id = FormatWaferId(i)

----------------------------------------------------------------------------
(* SpecApi: the chart endpoints behind the timing middleware.  Requests are
   served one after the other; the elapsed times of the timed blocks are drawn
   independently. *)

\* timing_middleware, after call_next: the sample logged on the "main" logger
middleware_log(h, path, total) ==
    log_timing(h, "main", "request_complete",
               [path |-> path, method |-> "GET", total_ms |-> Round2(total)])

\* Query(..., ge=1) on weeks, lots_per_week and wafers_per_lot
QueryValid(p) == p[1] >= 1 /\ p[2] >= 1 /\ p[3] >= 1

\* the part of get_boxplot_data after generate_boxplot_data returned
boxplot_response(r, el) ==
    LET h1 == with_TimingContext(r.heap, "charts_router", "response_preparation",
                                 "ok", el[5]).heap
        h2 == with_TimingContext(h1, "charts_router", "boxplot_endpoint", "ok", el[6]).heap
    IN  [heap |-> h2,
         response |->
            [kind |-> "boxplot_response", status |-> 200,
             data |-> r.boxplot_data,
             timing |-> [server |->
                [array_generation_ms |-> r.timing_metrics.array_generation_ms,
                 yield_generation_ms |-> r.timing_metrics.yield_generation_ms,
                 dataframe_creation_ms |-> r.timing_metrics.dataframe_creation_ms,
                 total_data_points |-> r.timing_metrics.total_data_points,
                 boxplot_transformation_ms |-> r.timing_metrics.boxplot_transformation_ms,
                 endpoint_total_ms |-> el[6]]],
             headers |->
                [X_Data_Generation_Ms |->
                    Round2(r.timing_metrics.array_generation_ms
                           + r.timing_metrics.yield_generation_ms
                           + r.timing_metrics.dataframe_creation_ms),
                 X_Transformation_Ms |-> Round2(r.timing_metrics.boxplot_transformation_ms)]]]

\* charts.get_boxplot_data; el: four generator blocks, response_preparation, boxplot_endpoint
get_boxplot_data(h, year, p, draws, el) ==
    boxplot_response(
        generate_boxplot_data(h, create_generator(year, p[1], p[2], p[3]), draws, el), el)

\* the part of get_csv_data after generate_csv returned
csv_response(r) ==
    [heap |-> log_timing(r.heap, "charts_router", "csv_download",
                [total_points |-> r.timing_metrics.total_data_points,
                 size_bytes |-> r.timing_metrics.csv_size_bytes,
                 generation_ms |-> r.timing_metrics.dataframe_creation_ms]),
     response |->
        [kind |-> "csv_response", status |-> 200, content |-> r.csv_string,
         headers |->
            [X_Data_Points |-> r.timing_metrics.total_data_points,
             X_Generation_Ms |->
                Round2(r.timing_metrics.array_generation_ms
                       + r.timing_metrics.yield_generation_ms
                       + r.timing_metrics.dataframe_creation_ms)]]]

\* charts.get_csv_data; el: the four generator blocks
get_csv_data(h, year, p, draws, el) ==
    csv_response(generate_csv(h, create_generator(year, p[1], p[2], p[3]), draws, el))

\* charts.get_metrics: {"metrics": logger.get_metrics(), ...} as serialised
metrics_response(h) ==
    [kind |-> "metrics_response", status |-> 200,
     metrics |-> RetValue(h, get_metrics(h, "charts_router", None))]

\* the transport still has a request to serve
Serving == Len(History(Heap, "main", "request_complete")) < MaxRequests

ServingData ==
    /\ Serving
    /\ Len(calls["data_generator"]["array_generation"]) < MaxDataRequests

\* a request whose query fails Query(ge=1): answered 422 without the endpoint
\* running; the middleware logs it like any other
RejectedRequest(path, total) ==
    /\ Commit(middleware_log(Heap, path, total), ret, local)
    /\ output' = [kind |-> "validation_error", status |-> 422]
    /\ calls' = [calls EXCEPT !["main"]["request_complete"] =
                    Append(@, [path |-> path, method |-> "GET",
                               total_ms |-> Round2(total)])]
    /\ last' = [call |-> path, logger |-> None, operation |-> None,
                body |-> "ok", result |-> "422"]
    /\ UNCHANGED <<pc, generator>>

\* GET /api/charts/boxplot
GetBoxplot(year, p, draws, el) ==
    /\ \E r \in {get_boxplot_data(Heap, year, p, draws, el)} :
           /\ Commit(middleware_log(r.heap, "/api/charts/boxplot", el[7]), ret, local)
           /\ output' = r.response
    /\ generator' = create_generator(year, p[1], p[2], p[3])
    /\ calls' = [StageCalls(calls,
                    <<"array_generation", "yield_generation", "dataframe_creation",
                      "boxplot_transformation">>, el)
                 EXCEPT !["charts_router"]["response_preparation"] =
                            Append(@, [duration_ms |-> Round2(el[5])]),
                        !["charts_router"]["boxplot_endpoint"] =
                            Append(@, [duration_ms |-> Round2(el[6])]),
                        !["main"]["request_complete"] =
                            Append(@, [path |-> "/api/charts/boxplot", method |-> "GET",
                                       total_ms |-> Round2(el[7])])]
    /\ last' = [call |-> "/api/charts/boxplot", logger |-> None, operation |-> None,
                body |-> "ok", result |-> "200"]
    /\ UNCHANGED pc

\* GET /api/charts/csv
GetCsv(year, p, draws, el) ==
    /\ \E r \in {get_csv_data(Heap, year, p, draws, el)} :
           /\ Commit(middleware_log(r.heap, "/api/charts/csv", el[5]), ret, local)
           /\ output' = r.response
           /\ calls' = [StageCalls(calls,
                            <<"array_generation", "yield_generation",
                              "dataframe_creation", "csv_serialization">>, el)
                        EXCEPT !["charts_router"]["csv_download"] =
                                   Append(@, History(r.heap, "charts_router",
                                                     "csv_download")[Len(@) + 1]),
                               !["main"]["request_complete"] =
                                   Append(@, [path |-> "/api/charts/csv", method |-> "GET",
                                              total_ms |-> Round2(el[5])])]
    /\ generator' = create_generator(year, p[1], p[2], p[3])
    /\ last' = [call |-> "/api/charts/csv", logger |-> None, operation |-> None,
                body |-> "ok", result |-> "200"]
    /\ UNCHANGED pc

\* GET /api/charts/metrics
GetMetricsEndpoint(total) ==
    /\ Commit(middleware_log(Heap, "/api/charts/metrics", total), ret, local)
    /\ output' = metrics_response(Heap)
    /\ calls' = [calls EXCEPT !["main"]["request_complete"] =
                    Append(@, [path |-> "/api/charts/metrics", method |-> "GET",
                               total_ms |-> Round2(total)])]
    /\ last' = [call |-> "/api/charts/metrics", logger |-> None, operation |-> None,
                body |-> "ok", result |-> "200"]
    /\ UNCHANGED <<pc, generator>>

NextApi ==
    \/ /\ ServingData
       /\ \E y \in Years, p \in SmallParameters(1, MaxApiPoints) :
            \E draws \in [1..((p[1] * p[2]) * p[3]) -> RawYields],
               el \in [1..7 -> Elapsed] :
                GetBoxplot(y, p, draws, el)
    \/ /\ ServingData
       /\ \E y \in Years, p \in SmallParameters(1, MaxApiPoints) :
            \E draws \in [1..((p[1] * p[2]) * p[3]) -> RawYields],
               el \in [1..5 -> Elapsed] :
                GetCsv(y, p, draws, el)
    \/ /\ Serving
       /\ \E path \in {"/api/charts/boxplot", "/api/charts/csv"},
             p \in SmallParameters(0, MaxApiPoints), total \in Elapsed :
                ~QueryValid(p) /\ RejectedRequest(path, total)
    \/ /\ Serving
       /\ \E total \in Elapsed : GetMetricsEndpoint(total)

SpecApi == Init /\ [][NextApi]_vars

\* C5: one process-wide store: every timing sample recorded by a pipeline
\* stage or by the transport wrapper since the last reset is in what the
\* metrics endpoint returns.  (Stated for the samples of the requests answered
\* before this one: the pipeline stages and the endpoint's own blocks.)
C5_MetricsEndpointReturnsEverySample ==
    output.kind = "metrics_response" =>
        /\ \A op \in PipelineOps :
              calls["data_generator"][op] # <<>> =>
                  /\ op \in DOMAIN output.metrics
                  /\ output.metrics[op] = calls["data_generator"][op]
        /\ \A op \in TransportOps \ {"request_complete"} :
              calls["charts_router"][op] # <<>> =>
                  /\ op \in DOMAIN output.metrics
                  /\ output.metrics[op] = calls["charts_router"][op]

====
